---- MODULE Spec2Model ----
(***************************************************************************)
(* A model of tinyjson (src/tinyjson.go): the byte-level lexer, the token  *)
(* conversions, and the cursor (type Raw) with its traversal operations.   *)
(*                                                                         *)
(* Bytes are integers 0..255, a []byte is a sequence of bytes.  Indices in *)
(* the helper operators are 0-based as in the Go code; At(data, i) reads   *)
(* data[i].  A nil Token or a nil remainder is the empty sequence.         *)
(* A panic is a record [msg, arg]: the panic value is the string msg       *)
(* followed by the bytes arg; NoErr is "the call returned".                *)
(***************************************************************************)
EXTENDS Integers, Sequences, FiniteSets, TLC

VARIABLES buf, raw, pre, op, ret, err, tok, toks, onlyNext, intSize, peeks

vars == <<buf, raw, pre, op, ret, err, tok, toks, onlyNext, intSize, peeks>>

(***************************************************************************)
(* Bytes                                                                   *)
(***************************************************************************)

\* The printable ASCII characters, in order, from 32 (space) to 126 (~); the
\* grave accent (96) is spelled out.
Ascii ==
  << " ", "!", "\"", "#", "$", "%", "&", "'", "(", ")", "*", "+", ",", "-", ".", "/",
     "0", "1", "2", "3", "4", "5", "6", "7", "8", "9", ":", ";", "<", "=", ">", "?",
     "@", "A", "B", "C", "D", "E", "F", "G", "H", "I", "J", "K", "L", "M", "N", "O",
     "P", "Q", "R", "S", "T", "U", "V", "W", "X", "Y", "Z", "[", "\\", "]", "^", "_",
     "grave", "a", "b", "c", "d", "e", "f", "g", "h", "i", "j", "k", "l", "m", "n", "o",
     "p", "q", "r", "s", "t", "u", "v", "w", "x", "y", "z", "{", "|", "}", "~" >>

\* The byte of a printable ASCII character: Ord("a") = 97.
Ord(c) == 31 + (CHOOSE i \in 1..Len(Ascii) : Ascii[i] = c)

\* The bytes of a text given as a tuple of characters.
B(s) == [i \in 1..Len(s) |-> Ord(s[i])]

\* The control characters the code names by escape.
BS == 8
HT == 9
LF == 10
FF == 12
CR == 13

\* The bytes the code names by character literal.
SP == Ord(" ")
QUOTE == Ord("\"")
BACKSLASH == Ord("\\")
PLUS == Ord("+")
MINUS == Ord("-")
DOT == Ord(".")
ZERO == Ord("0")
NINE == Ord("9")

\* data[i], 0-based.
At(data, i) == data[i + 1]

\* data[lo:hi] and data[lo:], 0-based, for 0 <= lo <= hi <= len(data).
Slice(data, lo, hi) == SubSeq(data, lo + 1, hi)
SliceFrom(data, lo) == SubSeq(data, lo + 1, Len(data))

(***************************************************************************)
(* Panics                                                                  *)
(***************************************************************************)

NoErr == [msg |-> "", arg |-> <<>>]

\* panic("invalid JSON")
InvalidJSON == [msg |-> "invalid JSON", arg |-> <<>>]

\* panic("unexpected JSON: " + t.Raw())
UnexpectedJSON(t) == [msg |-> "unexpected JSON: ", arg |-> t]

\* The Go runtime's panics on data[lo:] with lo > len(data) and on s[i] with
\* i >= len(s).
SliceBounds == [msg |-> "runtime error: slice bounds out of range", arg |-> <<>>]
IndexRange == [msg |-> "runtime error: index out of range", arg |-> <<>>]

(***************************************************************************)
(* Kinds and tokens                                                        *)
(***************************************************************************)

EOF == 0
StartObject == Ord("{")
EndObject == Ord("}")
StartArray == Ord("[")
EndArray == Ord("]")
String == Ord("\"")
Number == Ord("9")
True == Ord("t")
False == Ord("f")
Null == Ord("n")
Colon == Ord(":")
Comma == Ord(",")

\* var kindByByte = [256]Kind{...}: the entries not listed are 0.
kindTable ==
  [b \in 0..255 |->
     CASE b = Ord("{") -> StartObject
       [] b = Ord("}") -> EndObject
       [] b = Ord("[") -> StartArray
       [] b = Ord("]") -> EndArray
       [] b = Ord("\"") -> String
       [] b = Ord("-") -> Number
       [] b = Ord(".") -> Number
       [] b \in Ord("0")..Ord("9") -> Number
       [] b = Ord("t") -> True
       [] b = Ord("f") -> False
       [] b = Ord("n") -> Null
       [] b = Ord(":") -> Colon
       [] b = Ord(",") -> Comma
       [] OTHER -> 0]

kindByByte(b) == kindTable[b]

Nil == <<>>

trueToken == B(<<"t", "r", "u", "e">>)
falseToken == B(<<"f", "a", "l", "s", "e">>)
nullToken == B(<<"n", "u", "l", "l">>)

TokenRaw(t) == IF t = Nil THEN <<>> ELSE t

TokenKind(t) == IF t = Nil THEN EOF ELSE kindByByte(At(t, 0))

(***************************************************************************)
(* Lexer                                                                   *)
(***************************************************************************)

isWhitespace_noTab(b) == b = SP \/ b = LF \/ b = CR

isWhitespace(b) == b = SP \/ b = LF \/ b = CR \/ b = HT

\* The loop that opens peekNextTokenKind and nextToken: the index of the first
\* byte at or after start that is not whitespace, or len(data).
RECURSIVE skipWhitespace(_, _)
skipWhitespace(data, start) ==
  IF start = Len(data) THEN start
  ELSE IF ~isWhitespace(At(data, start)) THEN start
  ELSE skipWhitespace(data, start + 1)

peekNextTokenKind(data) ==
  LET from(start) ==
        IF start = Len(data)
        THEN [kind |-> EOF, remainder |-> <<>>]
        ELSE [kind |-> kindByByte(At(data, start)), remainder |-> SliceFrom(data, start)]
  IN from(skipWhitespace(data, 0))

RECURSIVE scanStringFrom(_, _)
scanStringFrom(data, i) ==
  IF ~(i < Len(data)) THEN [token |-> Nil, remainder |-> data, err |-> InvalidJSON]
  ELSE IF At(data, i) = QUOTE
       THEN [token |-> Slice(data, 0, i + 1), remainder |-> SliceFrom(data, i + 1),
             err |-> NoErr]
  ELSE IF At(data, i) = BACKSLASH THEN scanStringFrom(data, i + 2)
  ELSE scanStringFrom(data, i + 1)

scanString(data) == scanStringFrom(data, 1)

numberBytes == (ZERO..NINE) \cup {DOT, Ord("e"), Ord("E"), PLUS, MINUS}

isNumberByte(c) == c \in numberBytes

RECURSIVE scanNumberFrom(_, _)
scanNumberFrom(data, i) ==
  IF i = Len(data) THEN [token |-> data, remainder |-> <<>>, err |-> NoErr]
  ELSE IF isNumberByte(At(data, i)) THEN scanNumberFrom(data, i + 1)
  ELSE [token |-> Slice(data, 0, i), remainder |-> SliceFrom(data, i), err |-> NoErr]

\* A scanNumber that leaves the last byte of a longer number in the remainder.
scanNumber_overlap(data) ==
  LET back(r) ==
        IF Len(r.token) < 2 THEN r
        ELSE [r EXCEPT !.remainder = SliceFrom(data, Len(r.token) - 1)]
  IN back(scanNumberFrom(data, 0))

scanNumber(data) == scanNumberFrom(data, 0)

\* return lit, data[start+k:] for a literal of k bytes: the slice expression
\* panics when fewer than k bytes remain.
literalToken(data, start, lit) ==
  IF start + Len(lit) > Len(data)
  THEN [token |-> Nil, remainder |-> data, err |-> SliceBounds]
  ELSE [token |-> lit, remainder |-> SliceFrom(data, start + Len(lit)), err |-> NoErr]

nextToken(data) ==
  LET default(start, k) ==
        IF k = Number THEN scanNumber(SliceFrom(data, start))
        ELSE IF k # 0
             THEN [token |-> Slice(data, start, start + 1),
                   remainder |-> SliceFrom(data, start + 1), err |-> NoErr]
        ELSE [token |-> Nil, remainder |-> data, err |-> InvalidJSON]
      switch(start, c) ==
        CASE c = QUOTE -> scanString(SliceFrom(data, start))
          [] c = True -> literalToken(data, start, trueToken)
          [] c = False -> literalToken(data, start, falseToken)
          [] c = Null -> literalToken(data, start, nullToken)
          [] OTHER -> default(start, kindByByte(c))
      from(start) ==
        IF start = Len(data) THEN [token |-> Nil, remainder |-> <<>>, err |-> NoErr]
        ELSE switch(start, At(data, start))
  IN from(skipWhitespace(data, 0))

(***************************************************************************)
(* The standard library's parsers, as the conversions call them             *)
(***************************************************************************)

\* A decimal magnitude is its sequence of digits without leading zeros; zero
\* is the empty sequence.
RECURSIVE stripZeros(_)
stripZeros(d) == IF d # <<>> /\ Head(d) = 0 THEN stripZeros(Tail(d)) ELSE d

\* a < b for magnitudes.
DecLess(a, b) ==
  \/ Len(a) < Len(b)
  \/ /\ Len(a) = Len(b)
     /\ \E i \in 1..Len(a) : a[i] < b[i] /\ \A j \in 1..(i - 1) : a[j] = b[j]

isDigit(c) == c \in ZERO..NINE

digitsOf(s) == [i \in 1..Len(s) |-> s[i] - ZERO]

\* 2^k for the widths the conversions can ask for.
Pow2Digits(k) ==
  CASE k = 31 -> <<2, 1, 4, 7, 4, 8, 3, 6, 4, 8>>
    [] k = 32 -> <<4, 2, 9, 4, 9, 6, 7, 2, 9, 6>>
    [] k = 63 -> <<9, 2, 2, 3, 3, 7, 2, 0, 3, 6, 8, 5, 4, 7, 7, 5, 8, 0, 8>>
    [] k = 64 -> <<1, 8, 4, 4, 6, 7, 4, 4, 0, 7, 3, 7, 0, 9, 5, 5, 1, 6, 1, 6>>

\* The widths of int and uint a build can have (strconv.IntSize).
IntSizes == {32, 64}

\* strconv.ParseUint(s, 10, bitSize): no sign, digits only, value < 2^bitSize;
\* bitSize 0 is the width of uint.  failed is err != nil.
ParseUint(s, bitSize, isz) ==
  LET bits == IF bitSize = 0 THEN isz ELSE bitSize
      range(d) ==
        IF DecLess(d, Pow2Digits(bits)) THEN [mag |-> d, failed |-> FALSE]
        ELSE [mag |-> <<>>, failed |-> TRUE]
  IN
  IF s = <<>> \/ \E i \in 1..Len(s) : ~isDigit(s[i])
  THEN [mag |-> <<>>, failed |-> TRUE]
  ELSE range(stripZeros(digitsOf(s)))

\* strconv.ParseInt(s, 10, bitSize): an optional sign, then ParseUint, then
\* the range check against 2^(bits-1); bitSize 0 is the width of int.
ParseInt(s, bitSize, isz) ==
  LET bits == IF bitSize = 0 THEN isz ELSE bitSize
      signed == s # <<>> /\ s[1] \in {PLUS, MINUS}
      neg == s # <<>> /\ s[1] = MINUS
      range(un, cutoff) ==
        IF s = <<>> \/ un.failed THEN [neg |-> FALSE, mag |-> <<>>, failed |-> TRUE]
        ELSE IF ~neg /\ ~DecLess(un.mag, cutoff)
             THEN [neg |-> FALSE, mag |-> <<>>, failed |-> TRUE]
        ELSE IF neg /\ DecLess(cutoff, un.mag)
             THEN [neg |-> FALSE, mag |-> <<>>, failed |-> TRUE]
        ELSE [neg |-> neg /\ un.mag # <<>>, mag |-> un.mag, failed |-> FALSE]
  IN
  range(ParseUint(IF signed THEN Tail(s) ELSE s, bits, isz), Pow2Digits(bits - 1))

hexValue(c) ==
  CASE c \in ZERO..NINE -> c - ZERO
    [] c \in Ord("a")..Ord("f") -> c - Ord("a") + 10
    [] c \in Ord("A")..Ord("F") -> c - Ord("A") + 10
    [] OTHER -> -1

\* strconv.ParseUint(s, 16, 32) on the four bytes after \u: -1 is err != nil.
ParseHex4(s) ==
  IF \E i \in 1..4 : hexValue(s[i]) < 0 THEN -1
  ELSE ((hexValue(s[1]) * 16 + hexValue(s[2])) * 16 + hexValue(s[3])) * 16 + hexValue(s[4])

\* strings.Builder.WriteRune: the UTF-8 encoding of r, a surrogate written as
\* U+FFFD.
WriteRune(r) ==
  IF r < 128 THEN <<r>>
  ELSE IF r < 2048 THEN <<192 + (r \div 64), 128 + (r % 64)>>
  ELSE IF r \in 55296..57343 THEN <<239, 191, 189>>
  ELSE <<224 + (r \div 4096), 128 + ((r \div 64) % 64), 128 + (r % 64)>>

\* strconv.ParseFloat(s, 64) on decimal text, as readFloat scans it: a sign,
\* digits with at most one point and at least one digit, an optional exponent
\* with at least one digit, and nothing after.  The mantissa loop:
\* [i, nd, dp, digits, sawdot, sawdigits] after it.
RECURSIVE floatMantissa(_, _, _, _, _, _)
floatMantissa(s, i, digits, dp, sawdot, sawdigits) ==
  IF i < Len(s) /\ At(s, i) = DOT /\ ~sawdot
  THEN floatMantissa(s, i + 1, digits, Len(digits), TRUE, sawdigits)
  ELSE IF i < Len(s) /\ isDigit(At(s, i))
  THEN IF At(s, i) = ZERO /\ digits = <<>>
       THEN floatMantissa(s, i + 1, digits, dp - 1, sawdot, TRUE)
       ELSE floatMantissa(s, i + 1, Append(digits, At(s, i) - ZERO), dp, sawdot, TRUE)
  ELSE [i |-> i, digits |-> digits, dp |-> IF sawdot THEN dp ELSE Len(digits),
        sawdigits |-> sawdigits]

\* The exponent's digits: [i, e] after them, e capped as in the library.
RECURSIVE floatExponent(_, _, _)
floatExponent(s, i, e) ==
  IF i < Len(s) /\ isDigit(At(s, i))
  THEN floatExponent(s, i + 1, IF e < 10000 THEN e * 10 + (At(s, i) - ZERO) ELSE e)
  ELSE [i |-> i, e |-> e]

RECURSIVE stripTrailingZeros(_)
stripTrailingZeros(d) ==
  IF d # <<>> /\ d[Len(d)] = 0 THEN stripTrailingZeros(SubSeq(d, 1, Len(d) - 1)) ELSE d

\* 0.a < 0.b for digit sequences read as decimal fractions.
FracLess(a, b) ==
  \E i \in 1..Len(b) :
    /\ (IF i <= Len(a) THEN a[i] ELSE 0) < b[i]
    /\ \A j \in 1..(i - 1) : j <= Len(a) /\ a[j] = b[j]

\* The decimal fraction of (2^1024 - 2^970) / 10^309: a value at or above it
\* rounds to infinity, and ParseFloat reports a range error.
floatOverflowFrac ==
  <<1, 7, 9, 7, 6, 9, 3, 1, 3, 4, 8, 6, 2, 3, 1, 5, 8, 0, 7, 9, 3, 7, 2, 8, 9, 7, 1, 4, 0, 5, 3>>

\* A float is [neg, digits, dp]: (-1)^neg * 0.digits * 10^dp, digits without
\* leading or trailing zeros; zero is FloatZero.
FloatZero == [neg |-> FALSE, digits |-> <<>>, dp |-> 0]

ParseFloat(s) ==
  LET bad == [val |-> FloatZero, failed |-> TRUE]
      signed == s # <<>> /\ s[1] \in {PLUS, MINUS}
      neg == s # <<>> /\ s[1] = MINUS
      round(digits, dp) ==
        IF digits = <<>> \/ dp < -323 THEN [val |-> FloatZero, failed |-> FALSE]
        ELSE IF dp > 309 \/ (dp = 309 /\ ~FracLess(digits, floatOverflowFrac)) THEN bad
        ELSE [val |-> [neg |-> neg, digits |-> digits, dp |-> dp], failed |-> FALSE]
      exponent(m, hasExp, eneg, estart, x) ==
        IF ~m.sawdigits THEN bad
        ELSE IF hasExp /\ (~(estart < Len(s)) \/ ~isDigit(At(s, estart))) THEN bad
        ELSE IF (IF hasExp THEN x.i ELSE m.i) # Len(s) THEN bad
        ELSE round(stripTrailingZeros(m.digits),
                   IF hasExp THEN (IF eneg THEN m.dp - x.e ELSE m.dp + x.e) ELSE m.dp)
      sign(m, hasExp, esigned, eneg) ==
        exponent(m, hasExp, eneg, IF esigned THEN m.i + 2 ELSE m.i + 1,
                 floatExponent(s, IF esigned THEN m.i + 2 ELSE m.i + 1, 0))
      mantissa(m) ==
        sign(m,
             m.i < Len(s) /\ At(s, m.i) \in {Ord("e"), Ord("E")},
             m.i + 1 < Len(s) /\ At(s, m.i + 1) \in {PLUS, MINUS},
             m.i + 1 < Len(s) /\ At(s, m.i + 1) = MINUS)
  IN
  mantissa(floatMantissa(s, IF signed THEN 1 ELSE 0, <<>>, 0, FALSE, FALSE))

(***************************************************************************)
(* Token conversions                                                        *)
(***************************************************************************)

hasEscape(s) == \E i \in 1..Len(s) : s[i] = BACKSLASH

\* The loop of unquoteString over the body s, from index i, with the bytes
\* written to the builder so far.
RECURSIVE unquoteLoop(_, _, _)
unquoteLoop(s, i, out) ==
  LET n == Len(s) IN
  IF ~(i < n) THEN [val |-> out, err |-> NoErr]
  ELSE IF At(s, i) # BACKSLASH THEN unquoteLoop(s, i + 1, Append(out, At(s, i)))
  ELSE IF i + 1 = n THEN [val |-> <<>>, err |-> InvalidJSON]
  ELSE LET j == i + 1
           c == At(s, j)
       IN
       CASE c = Ord("b") -> unquoteLoop(s, j + 1, Append(out, BS))
         [] c = Ord("f") -> unquoteLoop(s, j + 1, Append(out, FF))
         [] c = Ord("n") -> unquoteLoop(s, j + 1, Append(out, LF))
         [] c = Ord("r") -> unquoteLoop(s, j + 1, Append(out, CR))
         [] c = Ord("t") -> unquoteLoop(s, j + 1, Append(out, HT))
         [] c = Ord("u") ->
              IF j + 4 >= n THEN [val |-> <<>>, err |-> InvalidJSON]
              ELSE LET u == ParseHex4(Slice(s, j + 1, j + 5)) IN
                   IF u < 0 THEN [val |-> <<>>, err |-> InvalidJSON]
                   ELSE unquoteLoop(s, j + 5, out \o WriteRune(u))
         [] OTHER -> unquoteLoop(s, j + 1, Append(out, c))

\* s[1 : n-1] panics for n < 2; &s[0] panics when the body is empty.
unquoteString(s) ==
  LET n == Len(s) IN
  IF n < 2 THEN [val |-> <<>>, err |-> SliceBounds]
  ELSE LET body == Slice(s, 1, n - 1) IN
       IF ~hasEscape(body)
       THEN IF Len(body) = 0 THEN [val |-> <<>>, err |-> IndexRange]
            ELSE [val |-> body, err |-> NoErr]
       ELSE unquoteLoop(body, 0, <<>>)

\* The values of type any that the conversions and Value() return.
NilValue == [t |-> "nil", v |-> <<>>]
BoolValue(b) == [t |-> "bool", v |-> b]
FloatValue(f) == [t |-> "float64", v |-> f]
StringValue(s) == [t |-> "string", v |-> s]
\* A []any: Value() declares it nil and appends, so it is nil when empty.
SliceValue(elems) == [t |-> "[]any", v |-> [isnil |-> elems = <<>>, elems |-> elems]]
\* A map[string]any: a function from keys to values.
MapValue(m) == [t |-> "map[string]any", v |-> m]

TokenFloat(t) ==
  LET result(f) ==
        IF TokenKind(t) = Number /\ ~f.failed THEN [val |-> f.val, err |-> NoErr]
        ELSE [val |-> FloatZero, err |-> UnexpectedJSON(TokenRaw(t))]
  IN result(ParseFloat(TokenRaw(t)))

TokenScalar(t) ==
  LET number(f) == [val |-> FloatValue(f.val), err |-> f.err]
      string(u) == [val |-> StringValue(u.val), err |-> u.err]
      switch(k) ==
        CASE k = EOF \/ k = Null -> [val |-> NilValue, err |-> NoErr]
          [] k = Number -> number(TokenFloat(t))
          [] k = String -> string(unquoteString(t))
          [] k = True -> [val |-> BoolValue(TRUE), err |-> NoErr]
          [] k = False -> [val |-> BoolValue(FALSE), err |-> NoErr]
          [] OTHER -> [val |-> NilValue, err |-> UnexpectedJSON(TokenRaw(t))]
  IN switch(TokenKind(t))

TokenStr(t) ==
  LET switch(k) ==
        CASE k = EOF \/ k = Null -> [val |-> <<>>, err |-> NoErr]
          [] k = String -> unquoteString(t)
          [] k = True \/ k = False \/ k = Number -> [val |-> TokenRaw(t), err |-> NoErr]
          [] OTHER -> [val |-> <<>>, err |-> UnexpectedJSON(TokenRaw(t))]
  IN switch(TokenKind(t))

\* An integer result is [neg, mag]: the sign and the decimal magnitude.
IntZero == [neg |-> FALSE, mag |-> <<>>]

\* Int() that reports a failed conversion as a grammar violation.
TokenInt_invalid(t, isz) ==
  LET result(v) ==
        IF TokenKind(t) = Number /\ ~v.failed
        THEN [val |-> [neg |-> v.neg, mag |-> v.mag], err |-> NoErr]
        ELSE [val |-> IntZero, err |-> InvalidJSON]
  IN result(ParseInt(TokenRaw(t), 0, isz))

TokenInt(t, isz) ==
  LET result(v) ==
        IF TokenKind(t) = Number /\ ~v.failed
        THEN [val |-> [neg |-> v.neg, mag |-> v.mag], err |-> NoErr]
        ELSE [val |-> IntZero, err |-> UnexpectedJSON(TokenRaw(t))]
  IN result(ParseInt(TokenRaw(t), 0, isz))

TokenInt64(t, isz) ==
  LET result(v) ==
        IF TokenKind(t) = Number /\ ~v.failed
        THEN [val |-> [neg |-> v.neg, mag |-> v.mag], err |-> NoErr]
        ELSE [val |-> IntZero, err |-> UnexpectedJSON(TokenRaw(t))]
  IN result(ParseInt(TokenRaw(t), 0, isz))

TokenUint64(t, isz) ==
  LET result(v) ==
        IF TokenKind(t) = Number /\ ~v.failed
        THEN [val |-> [neg |-> FALSE, mag |-> v.mag], err |-> NoErr]
        ELSE [val |-> IntZero, err |-> UnexpectedJSON(TokenRaw(t))]
  IN result(ParseUint(TokenRaw(t), 0, isz))

TokenBool(t) ==
  LET switch(k) ==
        CASE k = True -> [val |-> TRUE, err |-> NoErr]
          [] k = False -> [val |-> FALSE, err |-> NoErr]
          [] OTHER -> [val |-> FALSE, err |-> UnexpectedJSON(TokenRaw(t))]
  IN switch(TokenKind(t))

(***************************************************************************)
(* The cursor: each method as a function of *raw, giving the value it       *)
(* returns, the *raw it leaves (rem) and the panic it ends in, if any.      *)
(***************************************************************************)

RawNext(data) ==
  LET assign(r) ==
        IF r.err # NoErr THEN [token |-> Nil, rem |-> data, err |-> r.err]
        ELSE [token |-> r.token, rem |-> r.remainder, err |-> NoErr]
  IN assign(nextToken(data))

\* A Peek() that takes the token it looks at.
RawPeek_take(data) ==
  LET assign(r, t) == [kind |-> r.kind, rem |-> IF t.err = NoErr THEN t.rem ELSE r.remainder]
  IN assign(peekNextTokenKind(data), RawNext(data))

RawPeek(data) ==
  LET assign(r) == [kind |-> r.kind, rem |-> r.remainder]
  IN assign(peekNextTokenKind(data))

RECURSIVE RawContinueObject(_)
RawContinueObject(data) ==
  LET key(t, colon) ==
        IF colon.err # NoErr THEN [key |-> Nil, rem |-> colon.rem, err |-> colon.err]
        ELSE IF TokenKind(colon.token) # Colon
             THEN [key |-> Nil, rem |-> colon.rem, err |-> InvalidJSON]
        ELSE [key |-> t.token, rem |-> colon.rem, err |-> NoErr]
      switch(t, k) ==
        IF t.err # NoErr THEN [key |-> Nil, rem |-> t.rem, err |-> t.err]
        ELSE IF k = Comma THEN RawContinueObject(t.rem)
        ELSE IF k = String THEN key(t, RawNext(t.rem))
        ELSE IF k = EndObject THEN [key |-> Nil, rem |-> t.rem, err |-> NoErr]
        ELSE [key |-> Nil, rem |-> t.rem, err |-> InvalidJSON]
      again(t) == switch(t, TokenKind(t.token))
  IN again(RawNext(data))

RawStartObject(data) ==
  LET open(t) ==
        IF t.err # NoErr THEN [key |-> Nil, rem |-> t.rem, err |-> t.err]
        ELSE IF TokenKind(t.token) # StartObject
             THEN [key |-> Nil, rem |-> t.rem, err |-> UnexpectedJSON(TokenRaw(t.token))]
        ELSE RawContinueObject(t.rem)
  IN open(RawNext(data))

RawStartArray(data) ==
  LET open(t) ==
        IF t.err # NoErr THEN [rem |-> t.rem, err |-> t.err]
        ELSE IF TokenKind(t.token) # StartArray
             THEN [rem |-> t.rem, err |-> UnexpectedJSON(TokenRaw(t.token))]
        ELSE [rem |-> t.rem, err |-> NoErr]
  IN open(RawNext(data))

RECURSIVE RawContinueArray(_)
RawContinueArray(data) ==
  LET comma(t) ==
        IF t.err # NoErr THEN [more |-> FALSE, rem |-> t.rem, err |-> t.err]
        ELSE RawContinueArray(t.rem)
      close(t) == [more |-> FALSE, rem |-> t.rem, err |-> t.err]
      switch(p) ==
        IF p.kind = Comma THEN comma(RawNext(p.rem))
        ELSE IF p.kind = EndArray THEN close(RawNext(p.rem))
        ELSE IF p.kind = EOF THEN [more |-> FALSE, rem |-> p.rem, err |-> InvalidJSON]
        ELSE [more |-> TRUE, rem |-> p.rem, err |-> NoErr]
  IN switch(RawPeek(data))

\* Null() that takes the next token whatever it is.
RawNull_take(data) ==
  LET take(t) ==
        [isNull |-> t.err = NoErr /\ TokenKind(t.token) = Null, rem |-> t.rem, err |-> t.err]
  IN take(RawNext(data))

RawNull(data) ==
  LET take(t) == [isNull |-> t.err = NoErr, rem |-> t.rem, err |-> t.err]
      peeked(p) ==
        IF p.kind = Null THEN take(RawNext(p.rem))
        ELSE [isNull |-> FALSE, rem |-> p.rem, err |-> NoErr]
  IN peeked(RawPeek(data))

\* raw.Next().Str() and the like: the conversion of the next token.
RawStr(data) ==
  LET result(t, c) == [val |-> c.val, rem |-> t.rem, err |-> c.err]
      convert(t) ==
        IF t.err # NoErr THEN [val |-> <<>>, rem |-> t.rem, err |-> t.err]
        ELSE result(t, TokenStr(t.token))
  IN convert(RawNext(data))

RawInt(data, isz) ==
  LET result(t, c) == [val |-> c.val, rem |-> t.rem, err |-> c.err]
      convert(t) ==
        IF t.err # NoErr THEN [val |-> IntZero, rem |-> t.rem, err |-> t.err]
        ELSE result(t, TokenInt(t.token, isz))
  IN convert(RawNext(data))

RawInt64(data, isz) ==
  LET result(t, c) == [val |-> c.val, rem |-> t.rem, err |-> c.err]
      convert(t) ==
        IF t.err # NoErr THEN [val |-> IntZero, rem |-> t.rem, err |-> t.err]
        ELSE result(t, TokenInt64(t.token, isz))
  IN convert(RawNext(data))

RawUint64(data, isz) ==
  LET result(t, c) == [val |-> c.val, rem |-> t.rem, err |-> c.err]
      convert(t) ==
        IF t.err # NoErr THEN [val |-> IntZero, rem |-> t.rem, err |-> t.err]
        ELSE result(t, TokenUint64(t.token, isz))
  IN convert(RawNext(data))

RawFloat(data) ==
  LET result(t, c) == [val |-> c.val, rem |-> t.rem, err |-> c.err]
      convert(t) ==
        IF t.err # NoErr THEN [val |-> FloatZero, rem |-> t.rem, err |-> t.err]
        ELSE result(t, TokenFloat(t.token))
  IN convert(RawNext(data))

RawBool(data) ==
  LET result(t, c) == [val |-> c.val, rem |-> t.rem, err |-> c.err]
      convert(t) ==
        IF t.err # NoErr THEN [val |-> FALSE, rem |-> t.rem, err |-> t.err]
        ELSE result(t, TokenBool(t.token))
  IN convert(RawNext(data))

EmptyMap == [k \in {} |-> NilValue]

MapSet(m, k, v) == [x \in DOMAIN m \cup {k} |-> IF x = k THEN v ELSE m[x]]

RECURSIVE RawValue(_), valueObject(_, _), valueArray(_, _)
RawValue(data) ==
  LET scalar(t, s) == [val |-> s.val, rem |-> t.rem, err |-> s.err]
      switch(t, k) ==
        IF t.err # NoErr THEN [val |-> NilValue, rem |-> t.rem, err |-> t.err]
        ELSE IF k = EOF THEN [val |-> NilValue, rem |-> t.rem, err |-> NoErr]
        ELSE IF k = StartObject THEN valueObject(t.rem, EmptyMap)
        ELSE IF k = StartArray THEN valueArray(t.rem, <<>>)
        ELSE IF k \in {String, Number, True, False, Null} THEN scalar(t, TokenScalar(t.token))
        ELSE [val |-> NilValue, rem |-> t.rem, err |-> InvalidJSON]
      first(t) == switch(t, TokenKind(t.token))
  IN first(RawNext(data))

\* for key := raw.ContinueObject(); key != nil; key = raw.ContinueObject() {
\*     result[key.Str()] = raw.Value() }: key.Str() is evaluated before Value().
valueObject(data, result) ==
  LET set(ks, v) ==
        IF v.err # NoErr THEN [val |-> NilValue, rem |-> v.rem, err |-> v.err]
        ELSE valueObject(v.rem, MapSet(result, ks.val, v.val))
      index(c, ks) ==
        IF ks.err # NoErr THEN [val |-> NilValue, rem |-> c.rem, err |-> ks.err]
        ELSE set(ks, RawValue(c.rem))
      loop(c) ==
        IF c.err # NoErr THEN [val |-> NilValue, rem |-> c.rem, err |-> c.err]
        ELSE IF c.key = Nil THEN [val |-> MapValue(result), rem |-> c.rem, err |-> NoErr]
        ELSE index(c, TokenStr(c.key))
  IN loop(RawContinueObject(data))

\* for raw.ContinueArray() { result = append(result, raw.Value()) }
valueArray(data, result) ==
  LET append(v) ==
        IF v.err # NoErr THEN [val |-> NilValue, rem |-> v.rem, err |-> v.err]
        ELSE valueArray(v.rem, Append(result, v.val))
      loop(c) ==
        IF c.err # NoErr THEN [val |-> NilValue, rem |-> c.rem, err |-> c.err]
        ELSE IF ~c.more THEN [val |-> SliceValue(result), rem |-> c.rem, err |-> NoErr]
        ELSE append(RawValue(c.rem))
  IN loop(RawContinueArray(data))

RECURSIVE RawSkip(_), skipObject(_), skipArray(_)
RawSkip(data) ==
  LET switch(t, k) ==
        IF t.err # NoErr THEN [rem |-> t.rem, err |-> t.err]
        ELSE IF k = StartObject THEN skipObject(t.rem)
        ELSE IF k = StartArray THEN skipArray(t.rem)
        ELSE IF k \in {String, Number, True, False, Null} THEN [rem |-> t.rem, err |-> NoErr]
        ELSE [rem |-> t.rem, err |-> InvalidJSON]
      first(t) == switch(t, TokenKind(t.token))
  IN first(RawNext(data))

skipObject(data) ==
  LET skipped(v) == IF v.err # NoErr THEN v ELSE skipObject(v.rem)
      loop(c) ==
        IF c.err # NoErr THEN [rem |-> c.rem, err |-> c.err]
        ELSE IF c.key = Nil THEN [rem |-> c.rem, err |-> NoErr]
        ELSE skipped(RawSkip(c.rem))
  IN loop(RawContinueObject(data))

skipArray(data) ==
  LET skipped(v) == IF v.err # NoErr THEN v ELSE skipArray(v.rem)
      loop(c) ==
        IF c.err # NoErr THEN [rem |-> c.rem, err |-> c.err]
        ELSE IF ~c.more THEN [rem |-> c.rem, err |-> NoErr]
        ELSE skipped(RawSkip(c.rem))
  IN loop(RawContinueArray(data))

RawEnsureEOF(data) ==
  LET peeked(p) ==
        IF p.kind # EOF THEN [rem |-> p.rem, err |-> InvalidJSON]
        ELSE [rem |-> p.rem, err |-> NoErr]
  IN peeked(RawPeek(data))

(***************************************************************************)
(* Inputs                                                                   *)
(***************************************************************************)

\* The longest buffer of fragments, in fragments.
MaxChunks == 2

\* The pieces buffers are made of: the structural tokens, a space, a string,
\* the empty string, a number, a literal and an unclassifiable byte.
Fragments ==
  { B(<<"{">>),
    B(<<"}">>),
    B(<<"[">>),
    B(<<"]">>),
    B(<<",">>),
    B(<<":">>),
    B(<<" ">>),
    B(<<"\"", "a", "\"">>),
    B(<<"\"", "\"">>),
    B(<<"1">>),
    B(<<"n", "u", "l", "l">>),
    B(<<"x">>) }

RECURSIVE Concats(_)
Concats(n) ==
  IF n = 0 THEN {<<>>}
  ELSE LET shorter == Concats(n - 1) IN
       shorter \cup {x \o f : x \in shorter, f \in Fragments}

\* Longer documents, after the inputs of TestNext, TestSkip, TestValue and
\* TestPanics, with the other whitespace bytes, the other literals, numbers
\* that do not convert, and truncated texts.
Docs ==
  { B(<<"{", "\"", "a", "\"", ":", "1", ",", "\"", "b", "\"", ":", "[", "1", ",", "{", "\"", "c", "\"", ":", "n", "u", "l", "l", "}", "]", "}", " ", "4", "2">>),
    <<LF>> \o B(<<"{">>) \o <<LF>> \o B(<<"\"", "a", "\"", ":", " ", "\"", "b", " ", "c", "\"", ",">>) \o <<HT>> \o B(<<"\"", "d", "\"", " ", ":", "3", "0">>) \o <<LF>> \o <<HT>> \o <<HT>> \o B(<<",">>) \o <<HT>> \o B(<<"\"", "e", "\"", ":">>) \o <<CR>> \o <<LF>> \o B(<<"\"", "f", "\"">>) \o <<LF>> \o <<LF>> \o B(<<"}">>),
    B(<<"\"", "e", "\\", "\"", ":", "\\", "\\", "\\", "/", "\\", "b", "\\", "f", "\\", "n", "\\", "r", "\\", "t", "\\", "u", "2", "6", "3", "A", "\"">>),
    B(<<"6", ".", "0", "2", "2", "e", "2", "3">>),
    B(<<"[", "1", ",", " ", "\"", "t", "w", "o", "\"", ",", " ", "3", ".", "0", ",", " ", "t", "r", "u", "e", ",", " ", "n", "u", "l", "l", "]">>),
    B(<<"[", "1", ",", " ", "[", "2", ",", " ", "3", "]", ",", " ", "4", "]">>),
    B(<<"{", "\"", "a", "\"", " ", "1", "}">>),
    B(<<"{", "\"", "x", "\"", ":", " ", "4", "2">>),
    B(<<"[", "\"", "x", "\"">>),
    B(<<"{", ",", ",", "\"", "a", "\"", ":", "1", "}">>),
    B(<<"[", "1", ",", ",", "2", "]">>),
    B(<<"{", "\"", "\"", ":", "1", "}", " ", "2">>),
    B(<<"{", "\"", "a", "\"", ":", "1", ",", "\"", "a", "\"", ":", "2", "}">>),
    B(<<"[", "1", ",", "2", "]", " ", "x">>),
    B(<<"\"", "x", "\\", "u", "1", "2", "\"">>),
    B(<<"n", "u", "l">>),
    B(<<"f", "a", "l", "s", "e">>),
    B(<<"[", "f", "a", "l", "s", "e", "]">>),
    B(<<"\"", "4", "2", "\"">>),
    B(<<"t", "r", "u">>),
    B(<<"t", "}">>),
    B(<<"{", "\"", "a", "\"", ":", "-", "}">>),
    B(<<"9", "2", "2", "3", "3", "7", "2", "0", "3", "6", "8", "5", "4", "7", "7", "5", "8", "0", "8">>),
    B(<<"1", "e", "9", "9", "9">>),
    B(<<"[", "1", "e", "9", "9", "9", "]">>),
    B(<<"-">>),
    B(<<"\"", "a">>),
    B(<<"\"">>),
    B(<<"t", "r", "u", "e">>),
    <<HT>> \o <<CR>> \o <<LF>> \o B(<<" ", "n", "u", "l", "l", " ">>) \o <<HT>>,
    B(<<"[", "t", "r", "u", "e", ",", "-", "1", "]">>),
    B(<<"{", "\"", "a", "\"", ":", "t", "r", "u", "e", "}">>),
    <<HT>> \o B(<<"1">>),
    B(<<"[">>) \o <<HT>> \o B(<<"]">>),
    B(<<"{", " ", "\"", "a", "\"">>) \o <<LF>> \o B(<<":">>) \o <<CR>> \o B(<<"-", "1", " ", ",", " ", "\"", "b", "\"", " ", ":", " ", "\"", "\"", " ", "}">>),
    B(<<"1", " ", "-">>),
    B(<<"\"", "a", "\"", " ", "x">>),
    B(<<"[", "1", "2", ",", " ", "[", "3", "]", ",", " ", "{", "\"", "a", "\"", ":", " ", "4", "5", "}", "]", " ", "6">>) }

\* The values that the round trip is tried on, as encoding/json writes them
\* (json.Marshal): no whitespace, the keys of an object in order, a string
\* with its quote, backslash and control characters escaped.
ArrayValue(elems) == [t |-> "[]any", v |-> [isnil |-> FALSE, elems |-> elems]]

One == [neg |-> FALSE, digits |-> <<1>>, dp |-> 1]

RoundTripStrings ==
  { <<>>, B(<<"a">>), B(<<"a", " ", "b">>), <<QUOTE>>, <<BACKSLASH>>, <<LF>>, <<HT>>,
    <<226, 152, 186>> }

RoundTripScalars ==
  {NilValue, BoolValue(TRUE), BoolValue(FALSE), FloatValue(FloatZero), FloatValue(One)}
    \cup {StringValue(x) : x \in RoundTripStrings}

RoundTripKeys == <<<<>>, B(<<"a">>)>>

RoundTripMaps(vals) ==
  {EmptyMap}
    \cup {MapSet(EmptyMap, RoundTripKeys[i], x) : i \in 1..2, x \in vals}
    \cup {MapSet(MapSet(EmptyMap, RoundTripKeys[1], x), RoundTripKeys[2], y) :
            x \in vals, y \in {FloatValue(One)}}

RoundTripFlat ==
  RoundTripScalars
    \cup {ArrayValue(<<>>)}
    \cup {ArrayValue(<<x>>) : x \in RoundTripScalars}
    \cup {ArrayValue(<<x, y>>) : x \in RoundTripScalars, y \in {NilValue}}
    \cup {MapValue(m) : m \in RoundTripMaps(RoundTripScalars)}

RoundTripNested ==
  LET inner == {ArrayValue(<<>>), ArrayValue(<<FloatValue(One)>>), MapValue(EmptyMap),
                MapValue(MapSet(EmptyMap, <<>>, BoolValue(TRUE))),
                MapValue(MapSet(EmptyMap, B(<<"a">>), StringValue(<<>>)))}
  IN {ArrayValue(<<x>>) : x \in inner}
       \cup {ArrayValue(<<FloatValue(One), x, NilValue>>) : x \in inner}
       \cup {MapValue(m) : m \in RoundTripMaps(inner)}

RoundTripValues == RoundTripFlat \cup RoundTripNested

EncodeByte(b) ==
  CASE b = QUOTE -> <<BACKSLASH, QUOTE>>
    [] b = BACKSLASH -> <<BACKSLASH, BACKSLASH>>
    [] b = LF -> <<BACKSLASH, Ord("n")>>
    [] b = CR -> <<BACKSLASH, Ord("r")>>
    [] b = HT -> <<BACKSLASH, Ord("t")>>
    [] OTHER -> <<b>>

RECURSIVE EncodeBytes(_)
EncodeBytes(x) == IF x = <<>> THEN <<>> ELSE EncodeByte(Head(x)) \o EncodeBytes(Tail(x))

EncodeString(x) == <<QUOTE>> \o EncodeBytes(x) \o <<QUOTE>>

\* A whole number: its digits, and the zeros up to the decimal point.
EncodeFloat(f) ==
  IF f.digits = <<>> THEN <<ZERO>>
  ELSE (IF f.neg THEN <<MINUS>> ELSE <<>>)
         \o [i \in 1..f.dp |-> IF i <= Len(f.digits) THEN ZERO + f.digits[i] ELSE ZERO]

RECURSIVE Encode(_), EncodeElements(_), EncodeMembers(_, _)
Encode(x) ==
  CASE x.t = "nil" -> nullToken
    [] x.t = "bool" -> IF x.v THEN trueToken ELSE falseToken
    [] x.t = "float64" -> EncodeFloat(x.v)
    [] x.t = "string" -> EncodeString(x.v)
    [] x.t = "[]any" -> <<Ord("[")>> \o EncodeElements(x.v.elems) \o <<Ord("]")>>
    [] x.t = "map[string]any" -> <<Ord("{")>> \o EncodeMembers(x.v, 1) \o <<Ord("}")>>

EncodeElements(elems) ==
  IF elems = <<>> THEN <<>>
  ELSE IF Len(elems) = 1 THEN Encode(Head(elems))
  ELSE Encode(Head(elems)) \o <<Ord(",")>> \o EncodeElements(Tail(elems))

\* The members of m whose keys are RoundTripKeys[i] and after.
EncodeMembers(m, i) ==
  IF i > Len(RoundTripKeys) THEN <<>>
  ELSE IF RoundTripKeys[i] \notin DOMAIN m THEN EncodeMembers(m, i + 1)
  ELSE EncodeString(RoundTripKeys[i]) \o <<Ord(":")>> \o Encode(m[RoundTripKeys[i]])
         \o (IF \E j \in (i + 1)..Len(RoundTripKeys) : RoundTripKeys[j] \in DOMAIN m
             THEN <<Ord(",")>> ELSE <<>>)
         \o EncodeMembers(m, i + 1)

Encodings == {Encode(x) : x \in RoundTripValues}

Buffers == Concats(MaxChunks) \cup Docs \cup Encodings

(***************************************************************************)
(* The state machine                                                        *)
(*                                                                         *)
(* buf is the buffer the cursor was made from and raw the cursor itself.    *)
(* op names the last call, pre is raw before it, ret what it returned and   *)
(* err the panic it ended in (NoErr: none).  tok is the receiver of the     *)
(* last call on a Token.  toks is the text of the tokens that Next() has    *)
(* returned since the cursor was made, kept while no other method of the    *)
(* cursor has been called (onlyNext).  intSize is the build's width of int. *)
(* Init is a cursor just made, raw := Raw(data).  A panic aborts the decode: *)
(* nothing is called on the cursor after one.                               *)
(***************************************************************************)

Init ==
  /\ buf \in Buffers
  /\ raw = buf
  /\ pre = buf
  /\ op = "Raw"
  /\ ret = Nil
  /\ err = NoErr
  /\ tok = Nil
  /\ toks = <<>>
  /\ onlyNext = TRUE
  /\ intSize \in IntSizes
  /\ peeks = 0

\* peeks counts the Peek() calls made in a row, up to MaxPeeks.
MaxPeeks == 2

\* What every call on the cursor other than Next() does to the rest of the
\* state: name is the method, r its outcome and val the value it returned.
Called(name, r, val) ==
  /\ peeks' = IF name = "Peek" THEN (IF peeks < MaxPeeks THEN peeks + 1 ELSE MaxPeeks) ELSE 0
  /\ pre' = raw
  /\ raw' = r.rem
  /\ op' = name
  /\ ret' = IF r.err = NoErr THEN val ELSE Nil
  /\ err' = r.err
  /\ tok' = Nil
  /\ toks' = <<>>
  /\ onlyNext' = FALSE
  /\ UNCHANGED <<buf, intSize>>

CallNext ==
  /\ err = NoErr
  /\ LET returned(r) ==
           /\ pre' = raw
           /\ raw' = r.rem
           /\ op' = "Next"
           /\ ret' = r.token
           /\ err' = r.err
           /\ tok' = Nil
           /\ toks' = IF onlyNext /\ r.err = NoErr THEN toks \o TokenRaw(r.token) ELSE toks
           /\ peeks' = 0
           /\ UNCHANGED <<buf, onlyNext, intSize>>
     IN returned(RawNext(raw))

CallPeek ==
  /\ err = NoErr
  /\ LET returned(r) == Called("Peek", [rem |-> r.rem, err |-> NoErr], r.kind)
     IN returned(RawPeek(raw))

CallStartObject ==
  /\ err = NoErr
  /\ LET returned(r) == Called("StartObject", r, r.key)
     IN returned(RawStartObject(raw))

CallContinueObject ==
  /\ err = NoErr
  /\ LET returned(r) == Called("ContinueObject", r, r.key)
     IN returned(RawContinueObject(raw))

CallStartArray ==
  /\ err = NoErr
  /\ LET returned(r) == Called("StartArray", r, Nil)
     IN returned(RawStartArray(raw))

CallContinueArray ==
  /\ err = NoErr
  /\ LET returned(r) == Called("ContinueArray", r, r.more)
     IN returned(RawContinueArray(raw))

CallNull ==
  /\ err = NoErr
  /\ LET returned(r) == Called("Null", r, r.isNull)
     IN returned(RawNull(raw))

CallStr ==
  /\ err = NoErr
  /\ LET returned(r) == Called("Str", r, r.val)
     IN returned(RawStr(raw))

CallInt ==
  /\ err = NoErr
  /\ LET returned(r) == Called("Int", r, r.val)
     IN returned(RawInt(raw, intSize))

CallInt64 ==
  /\ err = NoErr
  /\ LET returned(r) == Called("Int64", r, r.val)
     IN returned(RawInt64(raw, intSize))

CallUint64 ==
  /\ err = NoErr
  /\ LET returned(r) == Called("Uint64", r, r.val)
     IN returned(RawUint64(raw, intSize))

CallFloat ==
  /\ err = NoErr
  /\ LET returned(r) == Called("Float", r, r.val)
     IN returned(RawFloat(raw))

CallBool ==
  /\ err = NoErr
  /\ LET returned(r) == Called("Bool", r, r.val)
     IN returned(RawBool(raw))

CallValue ==
  /\ err = NoErr
  /\ LET returned(r) == Called("Value", r, r.val)
     IN returned(RawValue(raw))

CallSkip ==
  /\ err = NoErr
  /\ LET returned(r) == Called("Skip", r, Nil)
     IN returned(RawSkip(raw))

CallEnsureEOF ==
  /\ err = NoErr
  /\ LET returned(r) == Called("EnsureEOF", r, Nil)
     IN returned(RawEnsureEOF(raw))

\* The calls that leave a Token in ret.
TokenOps == {"Token", "Next", "StartObject", "ContinueObject"}

\* A call on the token that the last call returned: name is the method and r
\* its outcome.  The cursor is not touched.
TokenCalled(name, r) ==
  /\ op' = name
  /\ tok' = ret
  /\ ret' = IF r.err = NoErr THEN r.val ELSE Nil
  /\ err' = r.err
  /\ peeks' = 0
  /\ UNCHANGED <<buf, raw, pre, toks, onlyNext, intSize>>

CallTokenRaw ==
  /\ err = NoErr /\ op \in TokenOps
  /\ TokenCalled("Token.Raw", [val |-> TokenRaw(ret), err |-> NoErr])

CallTokenKind ==
  /\ err = NoErr /\ op \in TokenOps
  /\ TokenCalled("Token.Kind", [val |-> TokenKind(ret), err |-> NoErr])

CallTokenScalar ==
  /\ err = NoErr /\ op \in TokenOps
  /\ TokenCalled("Token.Scalar", TokenScalar(ret))

CallTokenStr ==
  /\ err = NoErr /\ op \in TokenOps
  /\ TokenCalled("Token.Str", TokenStr(ret))

CallTokenInt ==
  /\ err = NoErr /\ op \in TokenOps
  /\ TokenCalled("Token.Int", TokenInt(ret, intSize))

CallTokenInt64 ==
  /\ err = NoErr /\ op \in TokenOps
  /\ TokenCalled("Token.Int64", TokenInt64(ret, intSize))

CallTokenUint64 ==
  /\ err = NoErr /\ op \in TokenOps
  /\ TokenCalled("Token.Uint64", TokenUint64(ret, intSize))

CallTokenFloat ==
  /\ err = NoErr /\ op \in TokenOps
  /\ TokenCalled("Token.Float", TokenFloat(ret))

CallTokenBool ==
  /\ err = NoErr /\ op \in TokenOps
  /\ TokenCalled("Token.Bool", TokenBool(ret))

TokenCall ==
  \/ CallTokenRaw
  \/ CallTokenKind
  \/ CallTokenScalar
  \/ CallTokenStr
  \/ CallTokenInt
  \/ CallTokenInt64
  \/ CallTokenUint64
  \/ CallTokenFloat
  \/ CallTokenBool

Next ==
  \/ CallNext
  \/ CallPeek
  \/ CallStartObject
  \/ CallContinueObject
  \/ CallStartArray
  \/ CallContinueArray
  \/ CallNull
  \/ CallStr
  \/ CallInt
  \/ CallInt64
  \/ CallUint64
  \/ CallFloat
  \/ CallBool
  \/ CallValue
  \/ CallSkip
  \/ CallEnsureEOF
  \/ TokenCall

Spec == Init /\ [][Next]_vars

(***************************************************************************)
(* Tokens made directly, Token(text), as the tests of the conversions make  *)
(* them                                                                     *)
(***************************************************************************)

\* The longest string body, in pieces.
MaxPieces == 2

\* The pieces of a string body: src is the piece in the JSON text, and text
\* the text JSON gives it (RFC 8259, section 7), in UTF-8; the last piece is
\* an escape JSON does not define.
Pieces ==
  { [src |-> B(<<"a">>), text |-> B(<<"a">>)],
    [src |-> B(<<" ">>), text |-> B(<<" ">>)],
    [src |-> B(<<"\\", "b">>), text |-> <<BS>>],
    [src |-> B(<<"\\", "f">>), text |-> <<FF>>],
    [src |-> B(<<"\\", "n">>), text |-> <<LF>>],
    [src |-> B(<<"\\", "r">>), text |-> <<CR>>],
    [src |-> B(<<"\\", "t">>), text |-> <<HT>>],
    [src |-> B(<<"\\", "\"">>), text |-> <<QUOTE>>],
    [src |-> B(<<"\\", "\\">>), text |-> <<BACKSLASH>>],
    [src |-> B(<<"\\", "/">>), text |-> B(<<"/">>)],
    [src |-> B(<<"\\", "u", "2", "6", "3", "A">>), text |-> <<226, 152, 186>>],
    [src |-> B(<<"\\", "u", "0", "0", "e", "9">>), text |-> <<195, 169>>],
    [src |-> B(<<"\\", "u", "0", "0", "4", "1">>), text |-> B(<<"A">>)],
    [src |-> B(<<"\\", "q">>), text |-> B(<<"q">>)] }

RECURSIVE PieceSeqs(_)
PieceSeqs(n) ==
  IF n = 0 THEN {<<>>}
  ELSE LET shorter == PieceSeqs(n - 1) IN
       shorter \cup {Append(ps, p) : ps \in shorter, p \in Pieces}

RECURSIVE Flatten(_, _)
Flatten(ps, field) ==
  IF ps = <<>> THEN <<>> ELSE Head(ps)[field] \o Flatten(Tail(ps), field)

\* The String token whose body is the pieces ps.
Quoted(ps) == <<QUOTE>> \o Flatten(ps, "src") \o <<QUOTE>>

StringTokens == {Quoted(ps) : ps \in PieceSeqs(MaxPieces)}

\* Decimal integers around the limits of 32 and 64 bits.
IntegerTokens ==
  { B(<<"0">>),
    B(<<"1", "2", "3">>),
    B(<<"-", "4", "5", "6">>),
    B(<<"2", "1", "4", "7", "4", "8", "3", "6", "4", "7">>),
    B(<<"2", "1", "4", "7", "4", "8", "3", "6", "4", "8">>),
    B(<<"-", "2", "1", "4", "7", "4", "8", "3", "6", "4", "8">>),
    B(<<"-", "2", "1", "4", "7", "4", "8", "3", "6", "4", "9">>),
    B(<<"4", "2", "9", "4", "9", "6", "7", "2", "9", "5">>),
    B(<<"4", "2", "9", "4", "9", "6", "7", "2", "9", "6">>),
    B(<<"9", "2", "2", "3", "3", "7", "2", "0", "3", "6", "8", "5", "4", "7", "7", "5", "8", "0", "7">>),
    B(<<"9", "2", "2", "3", "3", "7", "2", "0", "3", "6", "8", "5", "4", "7", "7", "5", "8", "0", "8">>),
    B(<<"-", "9", "2", "2", "3", "3", "7", "2", "0", "3", "6", "8", "5", "4", "7", "7", "5", "8", "0", "8">>),
    B(<<"-", "9", "2", "2", "3", "3", "7", "2", "0", "3", "6", "8", "5", "4", "7", "7", "5", "8", "0", "9">>),
    B(<<"1", "8", "4", "4", "6", "7", "4", "4", "0", "7", "3", "7", "0", "9", "5", "5", "1", "6", "1", "5">>),
    B(<<"1", "8", "4", "4", "6", "7", "4", "4", "0", "7", "3", "7", "0", "9", "5", "5", "1", "6", "1", "6">>),
    B(<<"-", "1">>) }

\* Other texts over the bytes of a Number, well-formed and not.
NumberTokens ==
  { B(<<"-", "0">>),
    B(<<"0", "0", "7">>),
    B(<<"3", ".", "1", "4">>),
    B(<<"-", "2", ".", "7", "1", "8">>),
    B(<<"0", ".", "0">>),
    B(<<"6", ".", "0", "2", "2", "e", "2", "3">>),
    B(<<"1", "e", "9", "9", "9">>),
    B(<<"1", "e", "-", "9", "9", "9">>),
    B(<<"1", ".", "2", ".", "3">>),
    B(<<"-">>),
    B(<<".">>),
    B(<<"1", "e">>),
    B(<<"1", ".">>),
    B(<<".", "5">>),
    B(<<"1", "E", "+", "2">>),
    B(<<"-", "-", "1">>),
    B(<<"1", "+", "1">>) }

\* Strings whose body ends in a broken escape, and a lone quote.
BrokenStringTokens ==
  { B(<<"\"", "x", "x", "x", "\\", "u", "1", "2", "\"">>),
    B(<<"\"", "x", "x", "x", "\\", "\"">>),
    B(<<"\"", "x", "x", "x", "\\", "u", "1", "2", "3", "Z", "\"">>),
    B(<<"\"", "\\", "u", "2", "6", "3", "\"">>),
    B(<<"\"">>) }

OtherTokens ==
  { Nil,
    B(<<"t", "r", "u", "e">>),
    B(<<"f", "a", "l", "s", "e">>),
    B(<<"n", "u", "l", "l">>),
    B(<<"{">>),
    B(<<"}">>),
    B(<<"[">>),
    B(<<"]">>),
    B(<<":">>),
    B(<<",">>) }

TokenInputs ==
  StringTokens \cup IntegerTokens \cup NumberTokens \cup BrokenStringTokens \cup OtherTokens

TokenInit ==
  /\ buf = <<>>
  /\ raw = <<>>
  /\ pre = <<>>
  /\ op = "Token"
  /\ ret \in TokenInputs
  /\ err = NoErr
  /\ tok = Nil
  /\ toks = <<>>
  /\ onlyNext = TRUE
  /\ intSize \in IntSizes
  /\ peeks = 0

TokenSpec == TokenInit /\ [][TokenCall]_vars

(***************************************************************************)
(* JSON text as RFC 8259 defines it, for the claims that speak of valid or  *)
(* well-formed input.  An index of -1 says "no such text here".             *)
(***************************************************************************)

jsonWhitespace == {SP, HT, LF, CR}

jsonEscapes == {QUOTE, BACKSLASH, Ord("/"), Ord("b"), Ord("f"), Ord("n"), Ord("r"), Ord("t")}

jsonHex == (ZERO..NINE) \cup (Ord("a")..Ord("f")) \cup (Ord("A")..Ord("F"))

\* The index of the first byte at or after i that is not whitespace.
RECURSIVE jsonSkip(_, _)
jsonSkip(data, i) ==
  IF i < Len(data) /\ At(data, i) \in jsonWhitespace THEN jsonSkip(data, i + 1) ELSE i

\* The index after the quote that closes the string whose characters start at i.
RECURSIVE jsonChars(_, _)
jsonChars(data, i) ==
  IF ~(i < Len(data)) THEN -1
  ELSE LET c == At(data, i) IN
       IF c = QUOTE THEN i + 1
       ELSE IF c = BACKSLASH
            THEN IF ~(i + 1 < Len(data)) THEN -1
                 ELSE IF At(data, i + 1) \in jsonEscapes THEN jsonChars(data, i + 2)
                 ELSE IF /\ At(data, i + 1) = Ord("u")
                         /\ i + 5 < Len(data)
                         /\ \A k \in 2..5 : At(data, i + k) \in jsonHex
                      THEN jsonChars(data, i + 6)
                 ELSE -1
       ELSE IF c < 32 THEN -1
       ELSE jsonChars(data, i + 1)

jsonString(data, i) ==
  IF i < Len(data) /\ At(data, i) = QUOTE THEN jsonChars(data, i + 1) ELSE -1

RECURSIVE jsonDigits(_, _)
jsonDigits(data, i) ==
  IF i < Len(data) /\ At(data, i) \in ZERO..NINE THEN jsonDigits(data, i + 1) ELSE i

\* number = [ minus ] int [ frac ] [ exp ]
jsonNumber(data, i) ==
  LET n == Len(data)
      a == IF i < n /\ At(data, i) = MINUS THEN i + 1 ELSE i
      b == jsonDigits(data, a)
      intOK == b > a /\ (At(data, a) # ZERO \/ b = a + 1)
      hasFrac == b < n /\ At(data, b) = DOT
      c == IF hasFrac THEN jsonDigits(data, b + 1) ELSE b
      fracOK == ~hasFrac \/ c > b + 1
      hasExp == c < n /\ At(data, c) \in {Ord("e"), Ord("E")}
      d == IF hasExp /\ c + 1 < n /\ At(data, c + 1) \in {PLUS, MINUS} THEN c + 2 ELSE c + 1
      e == IF hasExp THEN jsonDigits(data, d) ELSE c
      expOK == ~hasExp \/ e > d
  IN
  IF intOK /\ fracOK /\ expOK THEN e ELSE -1

jsonLiteral(data, i, lit) ==
  IF i + Len(lit) <= Len(data) /\ Slice(data, i, i + Len(lit)) = lit THEN i + Len(lit)
  ELSE -1

\* The index after the value that starts at or after i, whitespace first.
RECURSIVE jsonValue(_, _), jsonElements(_, _), jsonMembers(_, _)
jsonValue(data, i0) ==
  LET i == jsonSkip(data, i0) IN
  IF ~(i < Len(data)) THEN -1
  ELSE LET c == At(data, i)
           j == jsonSkip(data, i + 1)
       IN
       CASE c = Ord("{") ->
              IF j < Len(data) /\ At(data, j) = Ord("}") THEN j + 1 ELSE jsonMembers(data, j)
         [] c = Ord("[") ->
              IF j < Len(data) /\ At(data, j) = Ord("]") THEN j + 1 ELSE jsonElements(data, j)
         [] c = QUOTE -> jsonString(data, i)
         [] c = Ord("t") -> jsonLiteral(data, i, B(<<"t", "r", "u", "e">>))
         [] c = Ord("f") -> jsonLiteral(data, i, B(<<"f", "a", "l", "s", "e">>))
         [] c = Ord("n") -> jsonLiteral(data, i, B(<<"n", "u", "l", "l">>))
         [] OTHER -> jsonNumber(data, i)

\* value *( "," value ) "]"
jsonElements(data, i) ==
  LET e == jsonValue(data, i)
      j == jsonSkip(data, e)
  IN
  IF e < 0 \/ ~(j < Len(data)) THEN -1
  ELSE IF At(data, j) = Ord(",") THEN jsonElements(data, j + 1)
  ELSE IF At(data, j) = Ord("]") THEN j + 1
  ELSE -1

\* string ":" value *( "," string ":" value ) "}"
jsonMembers(data, i) ==
  LET s == jsonString(data, jsonSkip(data, i))
      c == jsonSkip(data, s)
      e == jsonValue(data, c + 1)
      j == jsonSkip(data, e)
  IN
  IF s < 0 \/ ~(c < Len(data)) THEN -1
  ELSE IF At(data, c) # Ord(":") THEN -1
  ELSE IF e < 0 \/ ~(j < Len(data)) THEN -1
  ELSE IF At(data, j) = Ord(",") THEN jsonMembers(data, j + 1)
  ELSE IF At(data, j) = Ord("}") THEN j + 1
  ELSE -1

\* data is one JSON value with whitespace around it.
IsValidJSON(data) ==
  LET e == jsonValue(data, 0) IN e >= 0 /\ jsonSkip(data, e) = Len(data)

\* data starts with a JSON value: one that ends where the text ends or where
\* whitespace, a comma or a closing bracket follows.
StartsWithValue(data) ==
  LET e == jsonValue(data, 0) IN
  /\ e >= 0
  /\ e = Len(data) \/ At(data, e) \in jsonWhitespace \cup {Ord(","), Ord("]"), Ord("}")}

\* data without its leading whitespace.
RECURSIVE TrimLeft(_)
TrimLeft(data) ==
  IF data # <<>> /\ Head(data) \in jsonWhitespace THEN TrimLeft(Tail(data)) ELSE data

\* JSON text from index i on without the whitespace between its tokens:
\* whitespace inside a string stays.
RECURSIVE stripFrom(_, _, _)
stripFrom(data, i, inString) ==
  IF ~(i < Len(data)) THEN <<>>
  ELSE LET c == At(data, i) IN
       IF inString /\ c = BACKSLASH /\ i + 1 < Len(data)
       THEN <<c, At(data, i + 1)>> \o stripFrom(data, i + 2, TRUE)
       ELSE IF c = QUOTE THEN <<c>> \o stripFrom(data, i + 1, ~inString)
       ELSE IF ~inString /\ c \in jsonWhitespace THEN stripFrom(data, i + 1, FALSE)
       ELSE <<c>> \o stripFrom(data, i + 1, inString)

StripWS(data) == stripFrom(data, 0, FALSE)

(***************************************************************************)
(* Tokenizing to exhaustion                                                 *)
(***************************************************************************)

\* C1: for a valid JSON buffer, Next() called again and again never aborts,
\* the Raw() texts of the tokens returned so far followed by what is left of
\* the buffer are the buffer with the whitespace between tokens removed, and
\* once Next() has returned the EOF token the texts alone are: every
\* non-whitespace byte is in exactly one token, in input order.
C1_NextCoversInput ==
  (IsValidJSON(buf) /\ onlyNext /\ op \in {"Raw", "Next"}) =>
    /\ err = NoErr
    /\ toks \o StripWS(raw) = StripWS(buf)
    /\ (op = "Next" /\ ret = Nil) => toks = StripWS(buf)

\* C1 witness: a valid document with whitespace between its tokens and inside
\* a string has been tokenized up to the EOF token.
C1_Witness ==
  /\ IsValidJSON(buf) /\ onlyNext
  /\ op = "Next" /\ ret = Nil /\ err = NoErr
  /\ toks = StripWS(buf)
  /\ Len(toks) < Len(buf)
  /\ \E i \in 1..Len(toks) : toks[i] = SP

(***************************************************************************)
(* Skip() and Value()                                                       *)
(***************************************************************************)

\* C2: on a remainder that starts with a JSON value, Skip() and Value() abort
\* together or not at all, and when they return they leave the same
\* remainder.
C2_SkipValueSameSpan ==
  StartsWithValue(pre) =>
    /\ op = "Skip" =>
         LET v == RawValue(pre) IN
         /\ (err = NoErr) <=> (v.err = NoErr)
         /\ err = NoErr => raw = v.rem
    /\ op = "Value" =>
         LET s == RawSkip(pre) IN
         /\ (err = NoErr) <=> (s.err = NoErr)
         /\ err = NoErr => raw = s.rem

(***************************************************************************)
(* Peek() and EnsureEOF()                                                   *)
(***************************************************************************)

\* C3: Peek() returns the Kind of the token that the following Next() returns,
\* returns EOF only when nothing but whitespace remained, and advances over
\* leading whitespace at most.
C3_PeekIsNextKind ==
  op = "Peek" =>
    LET n == RawNext(raw) IN
    /\ n.err = NoErr => ret = TokenKind(n.token)
    /\ ret = EOF => TrimLeft(pre) = <<>>
    /\ \E k \in 0..(Len(pre) - Len(TrimLeft(pre))) : raw = SliceFrom(pre, k)

\* C4: EnsureEOF() aborts with "invalid JSON" when a byte other than space,
\* tab, CR and LF remains, and returns when none does.
C4_EnsureEOFRejectsAnyByte ==
  op = "EnsureEOF" =>
    IF TrimLeft(pre) = <<>> THEN err = NoErr ELSE err = InvalidJSON

(***************************************************************************)
(* Null()                                                                   *)
(***************************************************************************)

\* The next token is the null literal.
NextIsNull(data) == jsonLiteral(TrimLeft(data), 0, B(<<"n", "u", "l", "l">>)) = 4

\* The next token is of another kind, or the input has ended.
NextIsNotNull(data) == TrimLeft(data) = <<>> \/ Head(TrimLeft(data)) # Ord("n")

Did(x) == IF x.abort THEN err # NoErr ELSE err = NoErr /\ ret = x.val /\ raw = x.rem

Abort == [abort |-> TRUE, val |-> Nil, rem |-> <<>>]

\* What a step over an object's text d is to do: after at most one comma, a
\* string and a colon give the string as the key, and } gives no key.
ObjectStep(d) ==
  LET e == IF TrimLeft(d) # <<>> /\ Head(TrimLeft(d)) = Ord(",")
           THEN TrimLeft(Tail(TrimLeft(d)))
           ELSE TrimLeft(d)
      s == jsonString(e, 0)
      c == TrimLeft(SliceFrom(e, s))
  IN
  IF s > 0 /\ c # <<>> /\ Head(c) = Ord(":")
  THEN [abort |-> FALSE, val |-> Slice(e, 0, s), rem |-> Tail(c)]
  ELSE IF e # <<>> /\ Head(e) = Ord("}")
  THEN [abort |-> FALSE, val |-> Nil, rem |-> Tail(e)]
  ELSE Abort

\* C6: ContinueObject() takes at most one comma and then either a String and
\* a Colon, returning the String with the cursor after the colon, or }, 
\* returning nil with the cursor after the brace; anything else aborts.
\* StartObject() does the same after the { it takes first.
C6_ObjectStepTakesOneComma ==
  /\ op = "ContinueObject" => Did(ObjectStep(pre))
  /\ (op = "StartObject" /\ TrimLeft(pre) # <<>> /\ Head(TrimLeft(pre)) = Ord("{")) =>
       Did(ObjectStep(Tail(TrimLeft(pre))))

\* d without the commas, and the whitespace, that it starts with.
RECURSIVE DropCommas(_)
DropCommas(d) ==
  IF TrimLeft(d) # <<>> /\ Head(TrimLeft(d)) = Ord(",")
  THEN DropCommas(Tail(TrimLeft(d)))
  ELSE TrimLeft(d)

\* C7: ContinueArray() takes the commas it finds; then end of input aborts
\* with "invalid JSON", ] is taken and false returned, and before any other
\* byte it returns true with that byte the first of the remainder.
C7_ArrayStepLeavesElement ==
  op = "ContinueArray" =>
    LET e == DropCommas(pre) IN
    IF e = <<>> THEN err = InvalidJSON
    ELSE IF Head(e) = Ord("]") THEN err = NoErr /\ ret = FALSE /\ raw = Tail(e)
    ELSE err = NoErr /\ ret = TRUE /\ raw = e

(***************************************************************************)
(* Conversions                                                              *)
(***************************************************************************)

\* C8: Str() and Scalar() on a String token return the text of its body
\* without aborting, whatever the body: empty, plain, or with escapes.
C8_StrUnescapesEveryString ==
  \A ps \in PieceSeqs(MaxPieces) :
    tok = Quoted(ps) =>
      /\ op = "Token.Str" => err = NoErr /\ ret = Flatten(ps, "text")
      /\ op = "Token.Scalar" => err = NoErr /\ ret = StringValue(Flatten(ps, "text"))

\* t is an optional minus and then digits.
IsInteger(t) ==
  LET d == IF t # <<>> /\ Head(t) = MINUS THEN Tail(t) ELSE t IN
  d # <<>> /\ \A i \in 1..Len(d) : d[i] \in ZERO..NINE

\* The integer that t writes, as a sign and a magnitude.
IntegerValue(t) ==
  LET mag == stripZeros(digitsOf(IF Head(t) = MINUS THEN Tail(t) ELSE t)) IN
  [neg |-> Head(t) = MINUS /\ mag # <<>>, mag |-> mag]

\* -2^63 <= v < 2^63
InInt64(v) ==
  IF v.neg THEN ~DecLess(Pow2Digits(63), v.mag) ELSE DecLess(v.mag, Pow2Digits(63))

\* 0 <= v < 2^64
InUint64(v) == ~v.neg /\ DecLess(v.mag, Pow2Digits(64))

\* C9: on every build, Int64() returns the integer a Number token writes when
\* it is in [-2^63, 2^63-1] and aborts when it is not, and Uint64() does the
\* same for [0, 2^64-1].
C9_FullRangeOnEveryBuild ==
  tok \in IntegerTokens =>
    /\ op = "Token.Int64" =>
         IF InInt64(IntegerValue(tok))
         THEN err = NoErr /\ ret = IntegerValue(tok)
         ELSE err # NoErr
    /\ op = "Token.Uint64" =>
         IF InUint64(IntegerValue(tok))
         THEN err = NoErr /\ ret = IntegerValue(tok)
         ELSE err # NoErr

(***************************************************************************)
(* The two diagnostics                                                      *)
(***************************************************************************)

\* The method the last call was, on the cursor or on a token.
Method ==
  CASE op = "Token.Scalar" -> "Scalar"
    [] op = "Token.Str" -> "Str"
    [] op = "Token.Int" -> "Int"
    [] op = "Token.Int64" -> "Int64"
    [] op = "Token.Uint64" -> "Uint64"
    [] op = "Token.Float" -> "Float"
    [] op = "Token.Bool" -> "Bool"
    [] OTHER -> op

OnToken ==
  op \in {"Token.Raw", "Token.Kind", "Token.Scalar", "Token.Str", "Token.Int", "Token.Int64",
          "Token.Uint64", "Token.Float", "Token.Bool"}

\* The methods that check the Kind of a token, and the Kinds each accepts.
KindChecked ==
  {"Scalar", "Str", "Int", "Int64", "Uint64", "Float", "Bool", "StartObject", "StartArray"}

Numeric == {"Int", "Int64", "Uint64", "Float"}

Accepts(name) ==
  CASE name \in {"Scalar", "Str"} -> {EOF, Null, String, True, False, Number}
    [] name \in Numeric -> {Number}
    [] name = "Bool" -> {True, False}
    [] name = "StartObject" -> {StartObject}
    [] name = "StartArray" -> {StartArray}

\* The token the method was applied to, and whether there was one: a method
\* of the cursor applies to the next token of the remainder.
Lexed == OnToken \/ RawNext(pre).err = NoErr

Subject == IF OnToken THEN tok ELSE RawNext(pre).token

\* The text of a Number that the method cannot convert: not an integer, or an
\* integer outside 64 bits, or for Float a text without point or exponent
\* that is not an integer, or one beyond the largest float64.
Unconvertible(name, t) ==
  CASE name \in {"Int", "Int64"} -> ~IsInteger(t) \/ ~InInt64(IntegerValue(t))
    [] name = "Uint64" -> ~IsInteger(t) \/ ~InUint64(IntegerValue(t))
    [] name = "Float" ->
         \/ t = B(<<"1", "e", "9", "9", "9">>)
         \/ /\ \A i \in 1..Len(t) : t[i] \in (ZERO..NINE) \cup {MINUS}
            /\ ~IsInteger(t)

\* The calls that lex the next token of the remainder first.
LexFirst ==
  {"Next", "Str", "Int", "Int64", "Uint64", "Float", "Bool", "StartObject", "StartArray",
   "ContinueObject", "Value", "Skip"}

\* d starts a string that no unescaped quote closes.
RECURSIVE Unclosed(_, _)
Unclosed(d, i) ==
  IF ~(i < Len(d)) THEN TRUE
  ELSE IF At(d, i) = QUOTE THEN FALSE
  ELSE IF At(d, i) = BACKSLASH THEN Unclosed(d, i + 2)
  ELSE Unclosed(d, i + 1)

UnterminatedString(d) == d # <<>> /\ Head(d) = QUOTE /\ Unclosed(d, 1)

\* d is an array or an object that only lacks its closing brackets.
Closers ==
  { B(<<"]">>), B(<<"}">>), B(<<"]", "]">>), B(<<"]", "}">>), B(<<"}", "]">>),
    B(<<"}", "}">>) }

Unterminated(d) ==
  /\ d # <<>> /\ Head(d) \in {Ord("["), Ord("{")}
  /\ \E c \in Closers : IsValidJSON(d \o c)

\* d, the text after an object's {, is a key that something other than a
\* colon follows, or nothing.
MissingColon(d) ==
  LET e == DropCommas(d)
      s == jsonString(e, 0)
      n == RawNext(SliceFrom(e, s))
  IN
  s > 0 /\ n.err = NoErr /\ TokenKind(n.token) # Colon

Diagnostic(e) == e.msg \in {InvalidJSON.msg, UnexpectedJSON(<<>>).msg}

\* C10: a method that checks the Kind of a token, applied to a token of a
\* Kind it does not accept, and a numeric method applied to a Number it
\* cannot convert, abort with "unexpected JSON: " and the token's text, and
\* nothing else aborts so; an unclassifiable byte, an unterminated string,
\* array or object, a missing colon and a token that cannot start a value
\* abort with "invalid JSON".
C10_FailureClasses ==
  LET d == TrimLeft(pre)
      k == TokenKind(Subject)
      unexpected == UnexpectedJSON(TokenRaw(Subject))
  IN
  /\ (Method \in KindChecked /\ Lexed /\ k \notin Accepts(Method)) => err = unexpected
  /\ (Method \in Numeric /\ Lexed /\ k = Number) =>
       /\ err \in {NoErr, unexpected}
       /\ Unconvertible(Method, TokenRaw(Subject)) => err = unexpected
  /\ err.msg = UnexpectedJSON(<<>>).msg =>
       \/ /\ Method \in KindChecked /\ Lexed /\ err = unexpected
          /\ k \notin Accepts(Method) \/ k = Number
       \/ /\ op = "Value"
          /\ err.arg # <<>> /\ kindByByte(Head(err.arg)) = Number
  /\ (op \in LexFirst /\ d # <<>> /\ kindByByte(Head(d)) = 0) => err = InvalidJSON
  /\ (op \in LexFirst /\ UnterminatedString(d)) => err = InvalidJSON
  /\ (op = "ContinueObject" /\ MissingColon(pre)) => err = InvalidJSON
  /\ (op = "StartObject" /\ d # <<>> /\ Head(d) = Ord("{") /\ MissingColon(Tail(d))) =>
       err = InvalidJSON
  /\ (op \in {"ContinueObject", "ContinueArray"} /\ DropCommas(pre) = <<>>) =>
       err = InvalidJSON
  /\ (op = "Skip" /\ Unterminated(d)) => err = InvalidJSON
  /\ (op = "Value" /\ Unterminated(d)) => err # NoErr /\ (Diagnostic(err) => err = InvalidJSON)
  /\ (op \in {"Value", "Skip"} /\ d # <<>> /\ Head(d) \in {Comma, Colon, EndObject, EndArray}) =>
       err = InvalidJSON
  /\ (op \in {"Value", "Skip"} /\ pre = B(<<"{", "\"", "a", "\"", " ", "1", "}">>)) =>
       err = InvalidJSON
  /\ (op = "EnsureEOF" /\ d # <<>> /\ kindByByte(Head(d)) # 0) => err = InvalidJSON

\* C10 witness: Int() on the String token "42" has aborted with
\* "unexpected JSON: " and the token's text, quotes included.
C10_Witness ==
  /\ op = "Int"
  /\ pre = B(<<"\"", "4", "2", "\"">>)
  /\ err = UnexpectedJSON(B(<<"\"", "4", "2", "\"">>))

(***************************************************************************)
(* Round trip                                                               *)
(***************************************************************************)

\* C11: Value() on the encoding of a value made of null, booleans, numbers,
\* strings, arrays and objects, the empty ones included, returns that value
\* and leaves nothing.
C11_ValueRoundTrip ==
  op = "Value" =>
    \A x \in RoundTripValues :
      pre = Encode(x) => err = NoErr /\ ret = x /\ raw = <<>>

(***************************************************************************)
(* Peek                                                                     *)
(***************************************************************************)

\* C12: Peek() is idempotent: it leaves the cursor at the start of the next
\* token, or empty at end of input, and a Peek() that follows a Peek() with
\* no other call in between returns the same Kind and leaves the remainder
\* as it was.
C12_PeekIdempotent ==
  [][op' = "Peek" =>
       /\ err' = NoErr
       /\ raw' = <<>> \/ ~isWhitespace(raw'[1])
       /\ op = "Peek" => (ret' = ret /\ raw' = raw)]_vars

\* C12: a further Peek() after a Peek(), in the middle of a document, at a token that
\* stood after whitespace.
C12_Witness ==
  /\ op = "Peek"
  /\ peeks = MaxPeeks
  /\ ret # EOF
  /\ raw # <<>>
  /\ Len(raw) < Len(buf)
  /\ \E i \in 1..Len(buf) : SliceFrom(buf, i) = raw /\ isWhitespace(buf[i])

(***************************************************************************)
(* Failures                                                                 *)
(***************************************************************************)

\* C13: whatever the buffer and the calls made on it, a call returns or
\* aborts with "invalid JSON" or with "unexpected JSON: " and the token's
\* text; nothing fails with a runtime error of slicing or indexing.
C13_OnlyTwoDiagnostics ==
  err = NoErr \/ err = InvalidJSON \/ err.msg = UnexpectedJSON(<<>>).msg

(***************************************************************************)
(* Progress                                                                 *)
(***************************************************************************)

IsSuffix(s, t) == Len(s) <= Len(t) /\ s = SliceFrom(t, Len(t) - Len(s))

\* The calls that a traversal loop repeats.
Loops == {"Value", "Skip", "ContinueObject", "ContinueArray"}

\* C14: the cursor only moves forward and traversal ends.  After every call
\* the remainder is a suffix of the remainder before it; a Next() that
\* returns a token returns at least one byte and takes at least the token's
\* bytes from the remainder; and every round of a traversal loop takes at
\* least one byte: ContinueObject() always, ContinueArray() when it ends the
\* array, Value() and Skip() unless nothing was left, which is never the case
\* after ContinueArray() has returned true.
C14_ForwardOnly ==
  /\ IsSuffix(raw, pre)
  /\ (op = "Next" /\ err = NoErr /\ ret # Nil) =>
       /\ Len(ret) >= 1
       /\ Len(ret) <= Len(pre) - Len(raw)
  /\ (op \in Loops /\ err = NoErr) =>
       CASE op = "ContinueObject" -> Len(raw) < Len(pre)
         [] op = "ContinueArray" -> IF ret THEN RawPeek(raw).kind # EOF ELSE Len(raw) < Len(pre)
         [] op = "Skip" -> Len(raw) < Len(pre)
         [] op = "Value" -> Len(raw) < Len(pre) \/ (pre = <<>> /\ ret = NilValue)

\* C14: Value() has walked through an array that holds a number of two digits
\* or more and an array or object, and left a part of the buffer.
C14_Witness ==
  /\ op = "Value"
  /\ err = NoErr
  /\ ret.t = "[]any"
  /\ \E i \in 1..Len(ret.v.elems) : ret.v.elems[i].t \in {"[]any", "map[string]any"}
  /\ \E i \in 1..Len(ret.v.elems) :
       ret.v.elems[i].t = "float64" /\ Len(ret.v.elems[i].v.digits) >= 2
  /\ raw # <<>>
  /\ Len(raw) < Len(pre)

====
